---- MODULE Spec2Model ----
(***************************************************************************)
(* Model of app.py: the FracFocus PDF downloader.                          *)
(*                                                                         *)
(* Three kinds of control flow touch the shared state (jobs, downloads,    *)
(* active_downloads):                                                      *)
(*   - the HTTP handlers (async def, no await inside): they run on the     *)
(*     asyncio event loop, one at a time;                                  *)
(*   - the background task download_disclosure_pdf (async def, no await    *)
(*     inside, time.sleep is a blocking sleep): it runs on the same event  *)
(*     loop and keeps it from its first line to its last;                  *)
(*   - the janitor, a daemon thread: it interleaves with whatever the      *)
(*     event loop is running, between any two of its statements.           *)
(*                                                                         *)
(* The event loop is the variable owner; the janitor has its own program   *)
(* counter.  Python dicts keep insertion order, so jobs and downloads are  *)
(* sequences of records keyed by the field id.                             *)
(*                                                                         *)
(* The selector loop of a run (lines 128-142) is a function of the page;   *)
(* it is followed on its own under SearchSpec, on every page of Pages.     *)
(***************************************************************************)
EXTENDS Integers, Sequences, FiniteSets

\* ---------------------------------------------------------------- bounds
\* The two limits of app.py are scaled down so that both are reached within
\* a few requests: MAX_JOBS is 50 (app.py:39) and MAX_CONCURRENT_DOWNLOADS is
\* 2 (app.py:46).
MAX_JOBS == 2
MAX_CONCURRENT_DOWNLOADS == 1
\* timedelta(hours=1) of app.py:166, in ticks of the clock.
RETENTION == 1
\* The clock is followed up to MaxTime.
MaxTime == 2
\* uuid.uuid4() is called at most MaxIds times (one call per admitted job):
\* enough to fill the registry and evict once.
MaxIds == MAX_JOBS + 1
\* The list selectors has 9 entries (app.py:116-126); the search is followed
\* over a list of NumSelectors.
NumSelectors == 3
\* A page has at most MaxElements elements that a selector can match.
MaxElements == 2

Ids == 1..MaxIds
\* The value of oldest_job_id when no candidate was found (None).
None == 0

\* ------------------------------------------------------- ordered dicts
Keys(d) == {d[i].id : i \in 1..Len(d)}
Has(d, k) == k \in Keys(d)
Get(d, k) == d[CHOOSE i \in 1..Len(d) : d[i].id = k]
\* del d[k]
Del(d, k) == SelectSeq(d, LAMBDA r : r.id # k)
\* d[r.id] = r : an existing key keeps its place, a new key goes last
Put(d, r) ==
    LET F[i \in 0..Len(d)] ==
            IF i = 0 THEN <<>>
            ELSE Append(F[i - 1], IF d[i].id = r.id THEN r ELSE d[i])
    IN  IF Has(d, r.id) THEN F[Len(d)] ELSE Append(d, r)

VARIABLES
    jobs,              \* jobs: job_id -> job record (Job Registry)
    downloads,         \* downloads: job_id -> {file_path, expires_at}
    active_downloads,  \* the global counter
    now,               \* what datetime.now() returns, for the expiry of downloads
    stamp,             \* what datetime.now() returns, for the created_at of jobs
    nextId,            \* the next value uuid.uuid4() returns
    task,              \* per job: where its background task is
    owner,             \* what the event loop is running
    http,              \* the handler the event loop runs or ran last, and its response
    janitor,           \* the cleanup thread
    page,              \* the page a run looks at: what each selector's lookup does
    selection          \* what the search for the download control came to

vars == <<jobs, downloads, active_downloads, now, stamp, nextId, task, owner, http, janitor,
          page, selection>>

\* Time.  datetime.now() is read for two purposes, and the model keeps one
\* clock for each.  Download Records expire on the clock now, which ticks
\* on its own.  A job's created_at is only ever compared with the created_at
\* of other jobs and with the time of a later POST (lines 210-217); at the
\* clock's resolution every admission reads a time later than all earlier
\* ones, so created_at is the reading of the counter stamp, which moves on
\* at every admission.  (The wall clock is taken to be monotonic.)

Terminal == {"completed", "failed"}

\* What the event loop is running: nothing, an HTTP handler, or the
\* background task of job j.
Idle == [kind |-> "idle", job |-> None]
Handler == [kind |-> "http", job |-> None]
Running(j) == [kind |-> "run", job |-> j]

\* ------------------------------------------------------------- the run
\* time.sleep() in download_disclosure_pdf blocks the thread it runs on: the
\* coroutine never yields the event loop.  (SleepYieldsAwait is the variant
\* with await asyncio.sleep(): the event loop is free during the sleep.)
SleepYieldsAwait == TRUE
SleepYields == FALSE

\* jobs[job_id]['status'] = 'downloading'  (MarkDownloadingSkip: the variant
\* without line 98.)
MarkDownloadingSkip(js, j) == js
MarkDownloading(js, j) == Put(js, [Get(js, j) EXCEPT !.status = "downloading"])

\* jobs[job_id]['status'] = 'failed'; jobs[job_id]['error'] = <message>
\* (MarkFailedSwallow: the variant that only logs the failure.)
MarkFailedSwallow(js, j, msg) == js
MarkFailed(js, j, msg) ==
    Put(js, [Get(js, j) EXCEPT !.status = "failed", !.error = msg])

\* jobs[job_id]['status'] = 'completed', ['file'], ['completed_at']
MarkCompleted(js, j) ==
    Put(js, [Get(js, j) EXCEPT !.status = "completed", !.file = TRUE,
                               !.completed_at = TRUE])

\* downloads[job_id] = {file_path, expires_at: now + 1 hour}
\* (RecordNoRetention: the variant without the timedelta.)
RecordNoRetention(dl, j, t) == Put(dl, [id |-> j, expires_at |-> t])
Record(dl, j, t) == Put(dl, [id |-> j, expires_at |-> t + RETENTION])

\* A task: where it is, whether driver is set, and what the run has seen:
\* button, download_button is set (line 138); pdf, pdf_files is not empty
\* (line 159).
NoTask == [pc |-> "none", driver |-> FALSE, button |-> FALSE, pdf |-> FALSE]

InProgress == {"browse", "sleep", "recorded", "fin"}
RunsInProgress == {j \in Ids : task[j].pc \in InProgress}

\* The event loop is free for job j's task to take its next step.
LoopFor(j) == owner = Running(j) \/ (SleepYields /\ owner = Idle /\ task[j].pc = "sleep")

\* Lines 93-98: the task starts, takes its permit and marks the job.
RunStart(j) ==
    /\ owner = Idle
    /\ task[j].pc = "sched"
    /\ active_downloads' = active_downloads + 1
    /\ jobs' = MarkDownloading(jobs, j)
    /\ task' = [task EXCEPT ![j].pc = "browse"]
    /\ owner' = Running(j)
    /\ UNCHANGED <<downloads, now, stamp, nextId, http, janitor, page, selection>>

\* Lines 101-152 and 176-184: the browser session up to the click.  What the
\* browser does is the input: it fails before or after the driver exists,
\* the page has no download control, a control is found and scrolling to it
\* or clicking it raises, or a control is found and clicked.
RunBrowse(j) ==
    /\ owner = Running(j)
    /\ task[j].pc = "browse"
    /\ \E outcome \in {"nodriver", "raised", "nobutton", "clickraised", "clicked"} :
        /\ task' = [task EXCEPT ![j] =
                [pc |-> IF outcome = "clicked" THEN "sleep" ELSE "fin",
                 driver |-> outcome # "nodriver",
                 button |-> outcome \in {"clickraised", "clicked"},
                 pdf |-> FALSE]]
        /\ jobs' = CASE outcome = "clicked" -> jobs
                     [] outcome = "nobutton" -> MarkFailed(jobs, j, "nobutton")
                     [] OTHER -> MarkFailed(jobs, j, "exception")
        /\ owner' = IF outcome = "clicked" /\ SleepYields THEN Idle ELSE Running(j)
    /\ UNCHANGED <<downloads, active_downloads, now, stamp, nextId, http, janitor, page, selection>>

\* Lines 154-167 and 172-175, 181-184: after the sleep, the download
\* directory is listed: a PDF is there (the Download Record is written), or
\* none is, or listing raises.
RunInspect(j) ==
    /\ LoopFor(j)
    /\ task[j].pc = "sleep"
    /\ owner' = Running(j)
    /\ \E outcome \in {"pdf", "nopdf", "raised"} :
        /\ task' = [task EXCEPT ![j].pc = IF outcome = "pdf" THEN "recorded" ELSE "fin",
                                 ![j].pdf = (outcome = "pdf")]
        /\ downloads' = IF outcome = "pdf" THEN Record(downloads, j, now) ELSE downloads
        /\ jobs' = CASE outcome = "pdf" -> jobs
                     [] outcome = "nopdf" -> MarkFailed(jobs, j, "nopdf")
                     [] OTHER -> MarkFailed(jobs, j, "exception")
    /\ UNCHANGED <<active_downloads, now, stamp, nextId, http, janitor, page, selection>>

\* Lines 169-171.
RunComplete(j) ==
    /\ owner = Running(j)
    /\ task[j].pc = "recorded"
    /\ jobs' = MarkCompleted(jobs, j)
    /\ task' = [task EXCEPT ![j].pc = "fin"]
    /\ UNCHANGED <<downloads, active_downloads, now, stamp, nextId, owner, http, janitor, page, selection>>

\* Lines 186-192, the finally block: driver.quit() when there is a driver,
\* then the permit is given back.  driver.quit() may raise: the exception
\* leaves the finally block before line 192.  Either way the task is over.
RunFinally(j) ==
    /\ owner = Running(j)
    /\ task[j].pc = "fin"
    /\ \E quitRaises \in BOOLEAN :
        /\ quitRaises => task[j].driver
        /\ task' = [task EXCEPT ![j] = NoTask]
        /\ active_downloads' = IF quitRaises THEN active_downloads
                               ELSE active_downloads - 1
    /\ owner' = Idle
    /\ UNCHANGED <<jobs, downloads, now, stamp, nextId, http, janitor, page, selection>>

\* ------------------------------------------------------ HTTP handlers
\* A well_url is written as the sequence of its pieces: the string is their
\* concatenation, and no piece used here is the beginning of another, so one
\* string begins with another when its pieces begin with the other's.
WellUrlPrefix == <<"https://", "fracfocus.org", "/wells/">>

\* The well_url of the requests that are sent: one under the prefix, one with
\* another scheme, one that stops short of the prefix's last "/", one of
\* another host.
Urls ==
    {<<"https://", "fracfocus.org", "/wells/", "4212345678">>,
     <<"http://", "fracfocus.org", "/wells/", "4212345678">>,
     <<"https://", "fracfocus.org", "/wells">>,
     <<"https://", "example.org", "/wells/", "4212345678">>}

\* No request, or a request without a body.
NoUrl == <<>>

\* s.startswith(p)
StartsWith(s, p) == Len(s) >= Len(p) /\ SubSeq(s, 1, Len(p)) = p

\* Lines 85-89, validate_well_url: the request is let through to the handler
\* when this holds.  (ValidWellUrlAny: the variant without the validator.)
ValidWellUrlAny(v) == TRUE
ValidWellUrl(v) == StartsWith(v, WellUrlPrefix)

\* A handler's response: the handler has returned (or raised) with this
\* code, and the event loop goes on to send the response.
Response(op, j, code) ==
    [op |-> op, pc |-> "ret", job |-> j, code |-> code, url |-> NoUrl]

\* The response to a POST /api/download with the body {well_url: u}.
PostResponse(u, j, code) == [Response("post", j, code) EXCEPT !.url = u]

\* No handler is running.
NoRequest == [op |-> "none", pc |-> "none", job |-> None, code |-> 0, url |-> NoUrl]

\* Line 200.  (ConcurrencyFullAtOne: the variant that is off by one.)
ConcurrencyFullAtOne(a) == a >= MAX_CONCURRENT_DOWNLOADS - 1
ConcurrencyFull(a) == a >= MAX_CONCURRENT_DOWNLOADS

\* Line 207.  (RegistryFullAbove: the variant with > for >=.)
RegistryFullAbove(js) == Len(js) > MAX_JOBS
RegistryFull(js) == Len(js) >= MAX_JOBS

\* Line 213.  (EvictionCandidateAny: the variant without the status test.)
EvictionCandidateAny(job) == TRUE
EvictionCandidate(job) == job.status \in Terminal

\* Lines 209-217: the scan for the oldest completed or failed job, in the
\* dict's order; t is the datetime.now() of line 210.
OldestJob(js, t) ==
    LET F[i \in 0..Len(js)] ==
            IF i = 0 THEN [id |-> None, time |-> t]
            ELSE IF EvictionCandidate(js[i]) /\ js[i].created_at < F[i - 1].time
                 THEN [id |-> js[i].id, time |-> js[i].created_at]
                 ELSE F[i - 1]
    IN  F[Len(js)].id

\* Line 239: the n-th call of uuid.uuid4() returns a value no earlier call
\* returned.  (NewJobIdCount: the variant that numbers the job by the size
\* of the registry.)
NewJobIdCount(n, js) == Len(js) + 1
NewJobId(n, js) == n

\* Lines 242-247.
NewJob(id, t) ==
    [id |-> id, status |-> "queued", created_at |-> t, file |-> FALSE,
     error |-> "none", completed_at |-> FALSE]

\* Lines 239-256 on the registry js: the job is created, its task is
\* scheduled and 202 is returned.
Admit(js, u) ==
    LET id == NewJobId(nextId, js) IN
    /\ nextId <= MaxIds
    /\ jobs' = Put(js, NewJob(id, stamp))
    /\ stamp' = stamp + 1
    /\ task' = [task EXCEPT ![id] = [NoTask EXCEPT !.pc = "sched"]]
    /\ nextId' = nextId + 1
    /\ http' = PostResponse(u, id, 202)
    /\ owner' = Handler

\* Lines 82-89 and 194-195: the body of the request is validated before
\* start_download is called; a well_url that fails is answered 422 and the
\* handler is not called.
PostInvalid(u) ==
    /\ owner = Idle
    /\ ~ValidWellUrl(u)
    /\ http' = PostResponse(u, None, 422)
    /\ owner' = Handler
    /\ UNCHANGED <<jobs, downloads, active_downloads, now, stamp, nextId, task, janitor, page, selection>>

\* Lines 200-204.
PostRejectConcurrency(u) ==
    /\ owner = Idle
    /\ ValidWellUrl(u)
    /\ ConcurrencyFull(active_downloads)
    /\ http' = PostResponse(u, None, 429)
    /\ owner' = Handler
    /\ UNCHANGED <<jobs, downloads, active_downloads, now, stamp, nextId, task, janitor, page, selection>>

\* Lines 207-217 and 232-237.
PostRejectCapacity(u) ==
    /\ owner = Idle
    /\ ValidWellUrl(u)
    /\ ~ConcurrencyFull(active_downloads)
    /\ RegistryFull(jobs)
    /\ OldestJob(jobs, stamp) = None
    /\ http' = PostResponse(u, None, 429)
    /\ owner' = Handler
    /\ UNCHANGED <<jobs, downloads, active_downloads, now, stamp, nextId, task, janitor, page, selection>>

\* Lines 200, 207 and 239-256: there is room.
PostAdmit(u) ==
    /\ owner = Idle
    /\ ValidWellUrl(u)
    /\ ~ConcurrencyFull(active_downloads)
    /\ ~RegistryFull(jobs)
    /\ Admit(jobs, u)
    /\ UNCHANGED <<downloads, active_downloads, now, janitor, page, selection>>

\* Lines 207-223: the registry is full and a job is evicted.  When it has no
\* Download Record the handler goes on to line 239; when it has one, the
\* handler is at line 224, the record still in the store.
PostEvict(u) ==
    /\ owner = Idle
    /\ ValidWellUrl(u)
    /\ ~ConcurrencyFull(active_downloads)
    /\ RegistryFull(jobs)
    /\ LET victim == OldestJob(jobs, stamp) IN
        /\ victim # None
        /\ IF Has(downloads, victim)
           THEN /\ nextId <= MaxIds
                /\ jobs' = Del(jobs, victim)
                /\ http' = [op |-> "post", pc |-> "evict", job |-> victim,
                            code |-> 0, url |-> u]
                /\ owner' = Handler
                /\ UNCHANGED <<nextId, stamp, task>>
           ELSE Admit(Del(jobs, victim), u)
    /\ UNCHANGED <<downloads, active_downloads, now, janitor, page, selection>>

\* Line 231.  (EvictRecordKeep: the variant without line 231.)
EvictRecordKeep(dl, k) == dl
EvictRecord(dl, k) == Del(dl, k)

\* Lines 224-256: the record is deleted and the new job admitted.
PostEvictRecord ==
    /\ owner = Handler
    /\ http.op = "post"
    /\ http.pc = "evict"
    /\ Has(downloads, http.job)
    /\ downloads' = EvictRecord(downloads, http.job)
    /\ Admit(jobs, http.url)
    /\ UNCHANGED <<active_downloads, now, janitor, page, selection>>

\* Line 231 when the record is gone since line 223: del raises KeyError, the
\* handler ends there and the client gets 500.
PostEvictRaise ==
    /\ owner = Handler
    /\ http.op = "post"
    /\ http.pc = "evict"
    /\ ~Has(downloads, http.job)
    /\ http' = PostResponse(http.url, None, 500)
    /\ UNCHANGED owner
    /\ UNCHANGED <<jobs, downloads, active_downloads, now, stamp, nextId, task, janitor, page, selection>>

\* Lines 258-264.
GetJobStatus(j) ==
    /\ owner = Idle
    /\ http' = Response("status", j, IF Has(jobs, j) THEN 200 ELSE 404)
    /\ owner' = Handler
    /\ UNCHANGED <<jobs, downloads, active_downloads, now, stamp, nextId, task, janitor, page, selection>>

\* Line 275.  (FetchExpiredAtDeadline: the variant with >= for >.)
FetchExpiredAtDeadline(t, rec) == t >= rec.expires_at
FetchExpired(t, rec) == t > rec.expires_at

\* Lines 269-270.
FetchBegin(j) ==
    /\ owner = Idle
    /\ http' = IF Has(downloads, j)
               THEN [op |-> "fetch", pc |-> "read", job |-> j, code |-> 0,
                     url |-> NoUrl]
               ELSE Response("fetch", j, 404)
    /\ owner' = Handler
    /\ UNCHANGED <<jobs, downloads, active_downloads, now, stamp, nextId, task, janitor, page, selection>>

\* Lines 272-275 and 287-291: file_info is read and the expiry checked.
FetchRead ==
    /\ owner = Handler
    /\ http.op = "fetch"
    /\ http.pc = "read"
    /\ Has(downloads, http.job)
    /\ http' = IF FetchExpired(now, Get(downloads, http.job))
               THEN [http EXCEPT !.pc = "purge"]
               ELSE Response("fetch", http.job, 200)
    /\ UNCHANGED <<jobs, downloads, active_downloads, now, stamp, nextId, task, owner, janitor, page, selection>>

\* Lines 276-285: the expired record is removed and 410 returned.
FetchPurge ==
    /\ owner = Handler
    /\ http.op = "fetch"
    /\ http.pc = "purge"
    /\ Has(downloads, http.job)
    /\ downloads' = Del(downloads, http.job)
    /\ http' = Response("fetch", http.job, 410)
    /\ UNCHANGED <<jobs, active_downloads, now, stamp, nextId, task, owner, janitor, page, selection>>

\* Line 272 or line 284 when the record is gone since line 269: KeyError,
\* the client gets 500.
FetchRaise ==
    /\ owner = Handler
    /\ http.op = "fetch"
    /\ http.pc \in {"read", "purge"}
    /\ ~Has(downloads, http.job)
    /\ http' = Response("fetch", http.job, 500)
    /\ UNCHANGED <<jobs, downloads, active_downloads, now, stamp, nextId, task, owner, janitor, page, selection>>

\* The response is sent and the event loop is free again (a background task
\* the handler added runs after the response).
Respond ==
    /\ owner = Handler
    /\ http.pc = "ret"
    /\ http' = NoRequest
    /\ owner' = Idle
    /\ UNCHANGED <<jobs, downloads, active_downloads, now, stamp, nextId, task, janitor, page, selection>>

\* --------------------------------------------------------- the janitor
\* Line 341.
JanitorExpired(t, rec) == t > rec.expires_at

\* The janitor's record: where it is, the time it read at line 337, the keys
\* it still has to visit, and start, the list of line 340 as it was copied.
JanitorAsleep == [pc |-> "sleep", now |-> 0, keys |-> <<>>, start |-> <<>>]

\* The janitor is done with the key at the head of its list.
JanitorAdvance ==
    IF Len(janitor.keys) = 1 THEN JanitorAsleep
    ELSE [janitor EXCEPT !.pc = "scan", !.keys = Tail(janitor.keys)]

\* Lines 335-340: the janitor wakes up, reads the time and copies the keys.
\* (A cycle over an empty store does nothing.)
JanitorWake ==
    /\ janitor.pc = "sleep"
    /\ downloads # <<>>
    /\ LET copied == [i \in 1..Len(downloads) |-> downloads[i].id] IN
         janitor' = [pc |-> "scan", now |-> now, keys |-> copied, start |-> copied]
    /\ UNCHANGED <<jobs, downloads, active_downloads, now, stamp, nextId, task, owner, http, page, selection>>

\* Line 341.
JanitorCheck ==
    /\ janitor.pc = "scan"
    /\ Has(downloads, Head(janitor.keys))
    /\ janitor' = IF JanitorExpired(janitor.now, Get(downloads, Head(janitor.keys)))
                  THEN [janitor EXCEPT !.pc = "del"]
                  ELSE JanitorAdvance
    /\ UNCHANGED <<jobs, downloads, active_downloads, now, stamp, nextId, task, owner, http, page, selection>>

\* Lines 342-353.
JanitorDelete ==
    /\ janitor.pc = "del"
    /\ Has(downloads, Head(janitor.keys))
    /\ downloads' = Del(downloads, Head(janitor.keys))
    /\ janitor' = JanitorAdvance
    /\ UNCHANGED <<jobs, active_downloads, now, stamp, nextId, task, owner, http, page, selection>>

\* Line 341, 342 or 352 when the record is gone since the keys were copied:
\* KeyError ends the thread.
JanitorRaise ==
    /\ janitor.pc \in {"scan", "del"}
    /\ ~Has(downloads, Head(janitor.keys))
    /\ janitor' = [pc |-> "dead", now |-> 0, keys |-> <<>>, start |-> <<>>]
    /\ UNCHANGED <<jobs, downloads, active_downloads, now, stamp, nextId, task, owner, http, page, selection>>

\* ------------------------------------ the search for the download control
\* Lines 128-142.  What driver.find_elements does for one selector on the
\* page: it raises, or it returns the list of the elements that match, in
\* document order; and what reading text, tag_name and href of those elements
\* (lines 133-136) does: it works, or it raises (an element gone stale).
Elements == 1..MaxElements

MatchSets ==
    {<<>>} \cup {<<e>> : e \in Elements}
           \cup {m \in Elements \X Elements : m[1] # m[2]}

Lookups ==
    {[lookup |-> "raises", elements |-> <<>>, inspect |-> "ok"]}
    \cup {[lookup |-> "ok", elements |-> m, inspect |-> x] :
              m \in MatchSets, x \in {"ok", "raises"}}

Pages ==
    {pg \in [1..NumSelectors -> Lookups] :
        \A i \in 1..NumSelectors : pg[i].elements = <<>> => pg[i].inspect = "ok"}

\* The page of a run that is not followed selector by selector.
NoPage == [i \in 1..NumSelectors |-> [lookup |-> "ok", elements |-> <<>>, inspect |-> "ok"]]

\* The search has not run: download_button = None (line 128).
NotSearched == [pc |-> "start", download_button |-> None, looked |-> {}]

\* One pass of the loop body (lines 130-142) for selector i, after the
\* passes before it came to prev: nothing after a break; the lookup is made;
\* an exception in the lookup or in the logging of the elements is caught
\* and the loop goes on; an empty list, and the loop goes on; else
\* download_button = elements[0] and break.
\* (SelectorPassNoBreak: the variant without the break of line 140.)
SelectorPassNoBreak(prev, i, found) ==
    IF found.lookup = "raises" \/ found.elements = <<>> \/ found.inspect = "raises"
    THEN [prev EXCEPT !.looked = @ \cup {i}]
    ELSE [download_button |-> found.elements[1],
          looked |-> prev.looked \cup {i}, broke |-> TRUE]
SelectorPass(prev, i, found) ==
    IF prev.broke THEN prev
    ELSE IF found.lookup = "raises" \/ found.elements = <<>> \/ found.inspect = "raises"
         THEN [prev EXCEPT !.looked = @ \cup {i}]
         ELSE [download_button |-> found.elements[1],
               looked |-> prev.looked \cup {i}, broke |-> TRUE]

\* Lines 128-142 on the page pg: the selectors in list order.
FindButton(pg) ==
    LET F[i \in 0..NumSelectors] ==
            IF i = 0 THEN [download_button |-> None, looked |-> {}, broke |-> FALSE]
            ELSE SelectorPass(F[i - 1], i, pg[i])
    IN  [pc |-> "end", download_button |-> F[NumSelectors].download_button,
         looked |-> F[NumSelectors].looked]

\* The search runs on the page.
Search ==
    /\ selection.pc = "start"
    /\ selection' = FindButton(page)
    /\ UNCHANGED <<jobs, downloads, active_downloads, now, stamp, nextId, task, owner,
                   http, janitor, page>>

Tick ==
    /\ now < MaxTime
    /\ now' = now + 1
    /\ UNCHANGED <<jobs, downloads, active_downloads, stamp, nextId, task, owner, http, janitor, page, selection>>

Init ==
    /\ jobs = <<>>
    /\ downloads = <<>>
    /\ active_downloads = 0
    /\ now = 0
    /\ stamp = 1
    /\ nextId = 1
    /\ task = [j \in Ids |-> NoTask]
    /\ owner = Idle
    /\ http = NoRequest
    /\ janitor = JanitorAsleep
    /\ page = NoPage
    /\ selection = NotSearched

Next ==
    \/ Tick
    \/ \E u \in Urls : PostInvalid(u)
    \/ \E u \in Urls : PostRejectConcurrency(u)
    \/ \E u \in Urls : PostRejectCapacity(u)
    \/ \E u \in Urls : PostAdmit(u)
    \/ \E u \in Urls : PostEvict(u)
    \/ PostEvictRecord
    \/ PostEvictRaise
    \/ \E j \in Ids : GetJobStatus(j)
    \/ \E j \in Ids : FetchBegin(j)
    \/ FetchRead
    \/ FetchPurge
    \/ FetchRaise
    \/ Respond
    \/ \E j \in Ids : RunStart(j)
    \/ \E j \in Ids : RunBrowse(j)
    \/ \E j \in Ids : RunInspect(j)
    \/ \E j \in Ids : RunComplete(j)
    \/ \E j \in Ids : RunFinally(j)
    \/ JanitorWake
    \/ JanitorCheck
    \/ JanitorDelete
    \/ JanitorRaise

Spec == Init /\ [][Next]_vars

\* The search for the download control on its own, on every page.
SearchInit ==
    /\ jobs = <<>>
    /\ downloads = <<>>
    /\ active_downloads = 0
    /\ now = 0
    /\ stamp = 1
    /\ nextId = 1
    /\ task = [j \in Ids |-> NoTask]
    /\ owner = Idle
    /\ http = NoRequest
    /\ janitor = JanitorAsleep
    /\ page \in Pages
    /\ selection = NotSearched

SearchNext == Search

SearchSpec == SearchInit /\ [][SearchNext]_vars

\* Scheduling.  Code that holds the event loop runs on: a handler goes to its
\* return and its response is sent, a task that has started goes to its end
\* (every browser call returns or raises).  A task that was added is started
\* once the event loop is free for it, however many requests arrive.
HandlerStep ==
    PostEvictRecord \/ PostEvictRaise \/ FetchRead \/ FetchPurge \/ FetchRaise \/ Respond
RunStep(j) == RunBrowse(j) \/ RunInspect(j) \/ RunComplete(j) \/ RunFinally(j)

Fairness ==
    /\ WF_vars(HandlerStep)
    /\ \A j \in Ids : WF_vars(RunStep(j)) /\ SF_vars(RunStart(j))

LiveSpec == Init /\ [][Next]_vars /\ Fairness

\* ---------------------------------------------------------------- claims
Status(j) == Get(jobs, j).status

\* C1: in every reachable state the number of orchestration runs in progress
\* (started and not yet finished) is at most MAX_CONCURRENT_DOWNLOADS.
C1_RunsWithinLimit == Cardinality(RunsInProgress) <= MAX_CONCURRENT_DOWNLOADS

\* A run is in progress while the task of another admitted job is waiting.
C1_Witness == RunsInProgress # {} /\ \E j \in Ids : task[j].pc = "sched"

\* C2: however a run ends, the step that ends it gives the permit back:
\* active_downloads after the run is its value before the run.
C2_PermitReleased ==
    [][\A j \in Ids :
          (task[j].pc = "fin" /\ task'[j].pc = "none")
              => active_downloads' = active_downloads - 1]_vars

\* C3: a job's status only moves along queued -> downloading ->
\* (completed | failed): nothing leaves a terminal status, downloading is
\* entered once, and no job goes from queued to a terminal status.
C3_StatusForward ==
    [][\A j \in Ids :
          (Has(jobs, j) /\ Has(jobs', j)) =>
              \/ Get(jobs', j).status = Status(j)
              \/ <<Status(j), Get(jobs', j).status>> \in
                     {<<"queued", "downloading">>, <<"downloading", "completed">>,
                      <<"downloading", "failed">>}]_vars

\* One job has gone all the way to completed and another to failed.
C3_Witness ==
    \E j, k \in Keys(jobs) : Status(j) = "completed" /\ Status(k) = "failed"

\* The Download Store has at most one record per job.
OneRecordPerJob ==
    \A i, k \in 1..Len(downloads) : downloads[i].id = downloads[k].id => i = k

\* The record's job is in the registry with status completed.
RecordOfCompleted(r) == Has(jobs, r.id) /\ Status(r.id) = "completed"

\* C4 as stated: in every reachable state, the states between the writes of
\* a run or of a handler included, every Download Record belongs to a job in
\* the registry with status completed, and there is one record per job.
C4_RecordsOfCompleted ==
    /\ OneRecordPerJob
    /\ \A i \in 1..Len(downloads) : RecordOfCompleted(downloads[i])

\* C4 amended: the same, except in two windows that only the janitor thread
\* can see: a run has written the record (line 164) and not yet the status
\* completed (line 169), its job still downloading; an eviction has deleted
\* the job (line 221) and not yet its record (line 231).
C4_RecordsOfCompletedOutsideWindows ==
    /\ OneRecordPerJob
    /\ \A i \in 1..Len(downloads) :
         LET r == downloads[i] IN
         \/ RecordOfCompleted(r)
         \/ task[r.id].pc = "recorded" /\ Has(jobs, r.id) /\ Status(r.id) = "downloading"
         \/ http.op = "post" /\ http.pc = "evict" /\ http.job = r.id /\ ~Has(jobs, r.id)

\* The store holds the record of a completed job after an eviction took
\* another job's record away.
C4_Witness ==
    /\ nextId > MAX_JOBS + 1
    /\ owner = Idle
    /\ downloads # <<>>
    /\ \A i \in 1..Len(downloads) : RecordOfCompleted(downloads[i])

\* The completed or failed jobs of the registry.
TerminalJobs == {j \in Keys(jobs) : Status(j) \in Terminal}

\* C5: a POST (of a valid well_url) that passes the concurrency check while
\* the registry is full and holds a completed or failed job removes exactly
\* the one with the
\* smallest created_at, and its Download Record with it, leaves every other
\* job and record alone, and then admits the new job.
C5_EvictOldestThenAdmit ==
    [][/\ (/\ owner = Idle /\ http'.op = "post"
           /\ StartsWith(http'.url, WellUrlPrefix)
           /\ active_downloads < MAX_CONCURRENT_DOWNLOADS
           /\ Len(jobs) >= MAX_JOBS /\ TerminalJobs # {})
          => \E v \in TerminalJobs :
                /\ \A k \in TerminalJobs : Get(jobs, v).created_at <= Get(jobs, k).created_at
                /\ ~Has(jobs', v)
                /\ \A k \in Keys(jobs) \ {v} : Has(jobs', k) /\ Get(jobs', k) = Get(jobs, k)
                /\ downloads' = downloads
                /\ \/ ~Has(downloads, v) /\ http'.code = 202 /\ Has(jobs', http'.job)
                   \/ Has(downloads, v) /\ http'.pc = "evict" /\ http'.job = v
       /\ (http.op = "post" /\ http.pc = "evict" /\ http' # http)
          => /\ http'.code = 202
             /\ jobs' = Append(jobs, Get(jobs', http'.job))
             /\ downloads' = Del(downloads, http.job)]_vars

\* C6: a queued or downloading job is never removed from the registry, and
\* the job of a task that is waiting or running is in the registry.
C6_NoEvictionInProgress ==
    /\ [](\A j \in Ids : task[j].pc # "none" => Has(jobs, j))
    /\ [][\A j \in Ids :
             (Has(jobs, j) /\ ~Has(jobs', j)) => Status(j) \in Terminal]_vars

\* An eviction has taken place and an older job that is still queued or
\* downloading is in the registry.
C6_Witness ==
    /\ nextId > MAX_JOBS + 1
    /\ \E j \in Keys(jobs) : j < nextId - 1 /\ Status(j) \notin Terminal

\* C7: a POST is answered 429 only at the concurrency limit, or with a full
\* registry that holds no completed or failed job, and that answer leaves
\* the registry, the store, the counter and the tasks as they were.
C7_RejectChangesNothing ==
    [][(http'.pc = "ret" /\ http'.code = 429 /\ http' # http) =>
          /\ UNCHANGED <<jobs, downloads, active_downloads, task, nextId, stamp>>
          /\ \/ active_downloads >= MAX_CONCURRENT_DOWNLOADS
             \/ Len(jobs) >= MAX_JOBS /\ TerminalJobs = {}]_vars

\* A POST was answered 429 for want of room in the registry.
C7_Witness ==
    /\ http.pc = "ret" /\ http.code = 429
    /\ active_downloads < MAX_CONCURRENT_DOWNLOADS
    /\ Len(jobs) = MAX_JOBS

\* C8: the job_id of an accepted POST is the id of no job created before,
\* and the job is in the registry from then on (GET /api/jobs/{job_id} is
\* never answered 404 for a job whose task is waiting or running) until it
\* is completed or failed and a POST evicts it.
C8_IdFreshAndResolvable ==
    /\ [][(http'.pc = "ret" /\ http'.code = 202 /\ http' # http) =>
             /\ http'.job \notin 1..(nextId - 1)
             /\ ~Has(jobs, http'.job)
             /\ Has(jobs', http'.job) /\ Get(jobs', http'.job).status = "queued"]_vars
    /\ [][\A j \in Ids :
             (Has(jobs, j) /\ ~Has(jobs', j)) =>
                 Status(j) \in Terminal /\ http'.op = "post" /\ http' # http]_vars
    /\ [](http.op = "status" /\ http.pc = "ret" /\ http.code = 404
              => ~Has(jobs, http.job) /\ task[http.job].pc = "none")

\* A POST is accepted after an earlier job was evicted.
C8_Witness ==
    /\ http.op = "post" /\ http.pc = "ret" /\ http.code = 202
    /\ nextId > MAX_JOBS + 1
    /\ Len(jobs) = MAX_JOBS

\* C9: a GET /api/downloads/{job_id} that found the Download Record is
\* answered with the file, the record left in place, when the time it reads
\* is not after expires_at, and else with 410, the record removed.
C9_FetchByExpiry ==
    [][(http.op = "fetch" /\ http.pc \in {"read", "purge"} /\ http'.pc = "ret") =>
          \/ /\ http'.code = 200
             /\ downloads' = downloads
             /\ Has(downloads, http.job)
             /\ now <= Get(downloads, http.job).expires_at
          \/ /\ http'.code = 410
             /\ ~Has(downloads', http.job)]_vars

\* C10: every admitted job ends completed or failed: a job that is queued
\* or downloading leads to the same job completed or failed, and a job whose
\* task is in its finally block or over is completed or failed, a failed one
\* with its error message.
C10_EveryJobEnds ==
    /\ \A j \in Ids :
          (Has(jobs, j) /\ Status(j) \notin Terminal)
              ~> (Has(jobs, j) /\ Status(j) \in Terminal)
    /\ [](\A j \in Keys(jobs) :
            task[j].pc \in {"fin", "none"} =>
                /\ Status(j) \in Terminal
                /\ Status(j) = "failed" => Get(jobs, j).error # "none")

\* A run has failed on an exception and its job says so.
C10_Witness ==
    \E j \in Keys(jobs) :
        task[j].pc = "none" /\ Status(j) = "failed" /\ Get(jobs, j).error = "exception"

\* C11: the janitor keeps sweeping for the lifetime of the process: whatever
\* a purge by download_file or an eviction by start_download does to a record
\* the janitor has in its list, the janitor's loop is never ended by an
\* unhandled error.
C11_JanitorKeepsSweeping == janitor.pc # "dead"

\* The janitor's step ends a cycle: the last key is done with, or the thread
\* is over.
CycleEnds == janitor.pc \in {"scan", "del"} /\ janitor'.pc \in {"sleep", "dead"}

\* What a step of the janitor leaves alone: the registry, the counter, the
\* tasks and every record that is not expired at the time the cycle read.
CycleFrame ==
    janitor' # janitor =>
        /\ UNCHANGED <<jobs, active_downloads, task>>
        /\ Keys(downloads') \subseteq Keys(downloads)
        /\ \A i \in 1..Len(downloads) :
              (janitor.pc = "sleep" \/ downloads[i].expires_at >= janitor.now)
                  => /\ Has(downloads', downloads[i].id)
                     /\ Get(downloads', downloads[i].id) = downloads[i]

\* C12: after a janitor cycle that read the time now, no Download Record
\* that was in the store at the start of the cycle with expires_at < now is
\* still there; the cycle leaves every unexpired record, every job of the
\* registry and active_downloads unchanged.  (A record keeps its expires_at
\* for as long as it is in the store.)
C12_CycleSweepsExpired ==
    [][/\ CycleFrame
       /\ \A k \in Keys(downloads) \cap Keys(downloads') :
             Get(downloads', k).expires_at = Get(downloads, k).expires_at
       /\ CycleEnds =>
             \A i \in 1..Len(janitor.start) :
                 LET k == janitor.start[i] IN
                 Has(downloads', k) => Get(downloads', k).expires_at >= janitor.now]_vars

\* The same for the cycles that run to their end.
C12_CompleteCycleSweepsExpired ==
    [][/\ CycleFrame
       /\ (janitor.pc \in {"scan", "del"} /\ janitor'.pc = "sleep") =>
             \A i \in 1..Len(janitor.start) :
                 LET k == janitor.start[i] IN
                 Has(downloads', k) => Get(downloads', k).expires_at >= janitor.now]_vars

\* The event loop takes up a request: a handler starts.
RequestServed == \E j \in Ids : GetJobStatus(j) \/ FetchBegin(j)

\* C13: an orchestration run does not block the request-handling path:
\* while a run is in progress a request can still be handled.  At the least,
\* when the runs in progress are all in their fixed wait and no other request
\* is being handled, a request that arrives is taken up.
C13_RunDoesNotBlockRequests ==
    (/\ RunsInProgress # {}
     /\ \A j \in RunsInProgress : task[j].pc = "sleep"
     /\ http = NoRequest)
        => ENABLED RequestServed

\* What the code does instead: from the first line of a run to its last the
\* event loop is the run's, and no handler runs or has a response to send.
C13_RunHoldsLoop ==
    \A j \in RunsInProgress : owner = Running(j) /\ http = NoRequest

\* C14: a POST /api/download whose well_url does not begin with
\* 'https://fracfocus.org/wells/' is rejected before the handler body runs:
\* the registry, the store and active_downloads are unchanged, no job is
\* evicted and no background task is scheduled.
C14_InvalidUrlRejected ==
    [][(owner = Idle /\ http'.op = "post" /\ ~StartsWith(http'.url, WellUrlPrefix)) =>
          /\ http'.pc = "ret" /\ http'.code = 422 /\ http'.job = None
          /\ UNCHANGED <<jobs, downloads, active_downloads, task, nextId, stamp>>]_vars

\* A POST with a well_url of another host was rejected while the registry
\* was full and held a job that an accepted POST would have evicted.
C14_Witness ==
    /\ http.op = "post" /\ http.code = 422
    /\ http.url[2] # "fracfocus.org"
    /\ active_downloads < MAX_CONCURRENT_DOWNLOADS
    /\ Len(jobs) = MAX_JOBS /\ TerminalJobs # {}

\* C15: no operation tries to delete a Download Record that another actor
\* has already deleted: a handler that is between its membership test and
\* its del (download_file at lines 270-284, the eviction at lines 224-231)
\* still finds the record in the store, and no handler ends in an unhandled
\* error.
C15_CheckThenDeleteAtomic ==
    /\ http.pc \in {"read", "purge", "evict"} => Has(downloads, http.job)
    /\ http.code # 500

\* C16: the terminal status of a run is determined by what it saw.  The job
\* ends completed if and only if a download control was found and the
\* download directory then held a .pdf file; exactly then a Download Record
\* with expires_at = now + 1 hour is created and the job gets file and
\* completed_at.  Otherwise (no control, no .pdf, or a step raised) the job
\* ends failed with an error message and no record is created for it.
C16_StatusByObservations ==
    /\ [](\A j \in Keys(jobs) :
            task[j].pc = "fin" =>
                LET job == Get(jobs, j) IN
                IF task[j].button /\ task[j].pdf
                THEN /\ job.status = "completed"
                     /\ job.file /\ job.completed_at /\ job.error = "none"
                ELSE /\ job.status = "failed"
                     /\ job.error # "none" /\ ~job.file /\ ~job.completed_at
                     /\ ~Has(downloads, j))
    /\ [][\A j \in Ids :
             /\ (~Has(downloads, j) /\ Has(downloads', j)) =>
                    /\ task'[j].button /\ task'[j].pdf
                    /\ Get(downloads', j).expires_at = now + RETENTION
             /\ (~task[j].pdf /\ task'[j].pdf) =>
                    ~Has(downloads, j) /\ Has(downloads', j)]_vars

\* A run that saw a control and a .pdf file is ending, its record in the
\* store, after a run that saw a control and no .pdf file.
C16_Witness ==
    \E j, k \in Keys(jobs) :
        /\ task[j].pc = "fin" /\ Status(j) = "completed" /\ Has(downloads, j)
        /\ Status(k) = "failed" /\ Get(jobs, k).error = "nopdf"

\* The search ended as it does when first is the set of the selectors that
\* can win: the first of them gives its first element and no later selector
\* is looked up; when there is none, every selector was looked up and no
\* control is chosen.
ChosenAmong(first) ==
    selection.pc = "end" =>
        IF first = {}
        THEN /\ selection.download_button = None
             /\ selection.looked = 1..NumSelectors
        ELSE LET w == CHOOSE i \in first : \A k \in first : i <= k IN
             /\ selection.download_button = page[w].elements[1]
             /\ selection.looked = 1..w

\* C17 as stated: the control chosen is the first element of the match-set
\* of the first selector, in list order, whose match-set is not empty;
\* selectors after that one are not evaluated; a selector whose lookup raises
\* is skipped as if it matched nothing; if every selector has an empty
\* match-set no control is chosen.
C17_FirstMatchWins ==
    ChosenAmong({i \in 1..NumSelectors :
                    page[i].lookup = "ok" /\ page[i].elements # <<>>})

\* C17 amended: the same with, for the first selector whose match-set is not
\* empty, the first selector whose match-set is not empty and whose matched
\* elements are read (text, tag name, href: lines 133-136) without an error;
\* a selector for which that reading raises is skipped like one whose lookup
\* raises.
C17_FirstReadableMatchWins ==
    ChosenAmong({i \in 1..NumSelectors :
                    /\ page[i].lookup = "ok" /\ page[i].elements # <<>>
                    /\ page[i].inspect = "ok"})

\* The search passed a selector whose lookup raised and one whose elements
\* could not be read, and chose the first match of the next.
C17_Witness ==
    /\ selection.pc = "end"
    /\ page[1].lookup = "raises"
    /\ page[2].elements # <<>> /\ page[2].inspect = "raises"
    /\ page[3].elements = <<2, 1>> /\ page[3].inspect = "ok"
    /\ selection.download_button = 2

\* The jobs of the registry that are queued or downloading.
NonTerminalJobs == {j \in Keys(jobs) : Status(j) \notin Terminal}

\* C18: in every reachable state the number of jobs that are queued or
\* downloading is at most MAX_CONCURRENT_DOWNLOADS: the permit is taken at
\* admission, so a POST is accepted only if fewer than
\* MAX_CONCURRENT_DOWNLOADS accepted jobs are still not completed or failed,
\* those whose task has not started included.
C18_NonTerminalWithinLimit ==
    Cardinality(NonTerminalJobs) <= MAX_CONCURRENT_DOWNLOADS

\* C19: in every reachable state the Job Registry holds at most MAX_JOBS
\* jobs, whatever POST requests were accepted or rejected, whatever runs and
\* janitor sweeps took place.
C19_RegistryWithinLimit == Len(jobs) <= MAX_JOBS

\* The registry is full again after an eviction made room for a new job,
\* a janitor sweep having removed a record in the meantime.
C19_Witness ==
    /\ Len(jobs) = MAX_JOBS
    /\ nextId > MAX_JOBS + 1
    /\ \E j \in Keys(jobs) : Status(j) = "completed" /\ ~Has(downloads, j)

\* C20: a Download Record is never removed before its expires_at except by
\* the capacity eviction of its job: when the janitor or the expired-fetch
\* path of download_file removes a record, its expires_at is strictly
\* earlier than the time; and a record that is in the store and not past
\* its expires_at is fetchable: the fetch finds it and answers with the file.
C20_NoRemovalBeforeExpiry ==
    [][/\ \A k \in Keys(downloads) \ Keys(downloads') :
             \/ Get(downloads, k).expires_at < now
             \/ http.op = "post" /\ http.pc = "evict" /\ http.job = k /\ http' # http
       /\ (owner = Idle /\ http'.op = "fetch" /\ Has(downloads, http'.job))
             => http'.pc = "read"
       /\ (/\ http.op = "fetch" /\ http.pc = "read" /\ http' # http
           /\ Has(downloads, http.job)
           /\ now <= Get(downloads, http.job).expires_at)
             => http'.code = 200 /\ Has(downloads', http.job)]_vars

\* A fetch at the very end of the retention window was answered with the
\* file, after the janitor had removed the expired record of another job.
C20_Witness ==
    /\ http.op = "fetch" /\ http.code = 200
    /\ Has(downloads, http.job) /\ Get(downloads, http.job).expires_at = now
    /\ janitor.pc = "sleep"
    /\ \E j \in Keys(jobs) : Status(j) = "completed" /\ ~Has(downloads, j)
====
